---- MODULE Spec2Model ----
(***************************************************************************)
(* Model of the DS1307new library with the alarm extension                 *)
(* (src/DS1307new.h, src/DS1307new.cpp).                                   *)
(*                                                                         *)
(* RTC  is the library object (class DS1307new RTC): its public date/time  *)
(*      fields and the private alarmTriggeredTime.                         *)
(* ram  is the NV-RAM of the DS1307 chip, addressed as getRAM/setRAM       *)
(*      address it (virtual address 0 = chip address 0x08); positions 0..8 *)
(*      hold the clock-is-set token, the alarm bits and the 7 alarm codes. *)
(* last records the operation that has just run: its name, its arguments,  *)
(*      whether its NV-RAM reads / writes were acknowledged, and what it   *)
(*      returned.                                                          *)
(* sinceMidnight is a history variable: TRUE when some isAlarmTime call    *)
(*      has returned true and no later call has observed 00:00.            *)
(*                                                                         *)
(* calls counts the calls made so far that write the NV-RAM.               *)
(*                                                                         *)
(* The clock registers 0x00..0x06 of the chip change on their own as time  *)
(* passes; every read of them draws its bytes from a set of readings.      *)
(***************************************************************************)
EXTENDS Integers, Sequences, FiniteSets, TLC

VARIABLES RTC, ram, last, sinceMidnight, calls

vars == <<RTC, ram, last, sinceMidnight, calls>>

(***************************************************************************)
(* Fixed-width integers                                                    *)
(***************************************************************************)
U8(x) == x % 256
U16(x) == x % 65536

\* A 32-bit unsigned value (uint32_t, unsigned long) is the pair <<hi, lo>> of
\* its 16-bit halves: its value is hi * 65536 + lo.
W32(n) == <<(n \div 65536) % 65536, n % 65536>>
\* w + n, w * k, w / k and w % k in 32 bits, for 0 <= n and 0 < k < 32768
Add32(w, n) == <<(w[1] + (w[2] + n) \div 65536) % 65536, (w[2] + n) % 65536>>
Mul32(w, k) == <<(w[1] * k + (w[2] * k) \div 65536) % 65536, (w[2] * k) % 65536>>
Div32(w, k) == <<w[1] \div k, ((w[1] % k) * 65536 + w[2]) \div k>>
Mod32(w, k) == ((w[1] % k) * 65536 + w[2]) % k
\* v < w in 32 bits
Less32(v, w) == v[1] < w[1] \/ (v[1] = w[1] /\ v[2] < w[2])
\* conversion of an unsigned long to a (32-bit) long
ToLong(w) ==
  IF w[1] >= 32768 THEN (w[1] - 65536) * 65536 + w[2] ELSE w[1] * 65536 + w[2]

RECURSIVE Pow2(_)
Pow2(n) == IF n = 0 THEN 1 ELSE 2 * Pow2(n - 1)

\* bit i of v
Bit(v, i) == (v \div Pow2(i)) % 2
\* v & m and v | m for a mask m with one bit set, m = 1 << i
AndBit(v, i) == Bit(v, i) * Pow2(i)
OrBit(v, i) == IF Bit(v, i) = 1 THEN v ELSE v + Pow2(i)

(***************************************************************************)
(* Constructor: the private constants and the initial object               *)
(***************************************************************************)
aspectIsSetToken == 165
aspectIsNotSetToken == 255
timeIsSetAddress == 0
alarmBitsAddress == 1
alarmCodeAddressOffset == 2
zero == 0
\* last NV-RAM position the alarm layout uses (code of weekday 6)
NvramLast == 8
\* the value clearAlarm and clearAlarmNvramMemory write for "no alarm"
NoAlarmCode == 255

\* RTC is a global object: its fields are zero-initialised, then the
\* constructor assigns alarmTriggeredTime = 0
DS1307new ==
  [second |-> 0, minute |-> 0, hour |-> 0, dow |-> 0, day |-> 0, month |-> 0,
   year |-> 0, ydn |-> 0, cdn |-> 0, time2000 |-> <<0, 0>>,
   alarmTriggeredTime |-> 0]

(***************************************************************************)
(* BCD                                                                     *)
(***************************************************************************)
dec2bcd(num) == U8((num \div 10) * 16 + (num % 10))
bcd2dec(num) == U8((num \div 16) * 10 + (num % 16))

(***************************************************************************)
(* NV-RAM transport.  ack is FALSE when the chip does not acknowledge:     *)
(* getRAM then returns early and leaves the caller's buffer as it was,     *)
(* setRAM's bytes are not stored.                                          *)
(***************************************************************************)
getRAM(r, rtc_addr, buf, ack) ==
  IF ack THEN r[rtc_addr % 64] ELSE buf

setRAM(r, rtc_addr, bytes, ack) ==
  IF ack
  THEN [a \in DOMAIN r |->
          IF a >= rtc_addr % 64 /\ a < (rtc_addr % 64) + Len(bytes)
          THEN bytes[a - (rtc_addr % 64) + 1]
          ELSE r[a]]
  ELSE r

(***************************************************************************)
(* Calendar engine.  Every operator takes the object o and gives the       *)
(* object after the call.  The *_steps operators list, in program order,   *)
(* the value each assignment computes before it is truncated to the width  *)
(* of the variable that receives it, as <<value, width in bits>>.          *)
(***************************************************************************)
is_leap_year(y) ==
  IF ((y % 4 = 0) /\ (y % 100 # 0)) \/ (y % 400 = 0) THEN 1 ELSE 0

Trunc(p) == p[1] % Pow2(p[2])
InRange(p) == p[1] >= 0 /\ p[1] < Pow2(p[2])

calculate_ydn_steps(o) ==
  LET tmp1 == IF o.month >= 3 THEN 1 ELSE 0
      s1 == <<o.month, 16>>                         \* tmp2 = month
      s2 == <<Trunc(s1) + 2, 16>>                   \* tmp2 += 2
      s3 == <<Trunc(s2) * 611, 16>>                 \* tmp2 *= 611
      s4 == <<Trunc(s3) \div 20, 16>>               \* tmp2 /= 20
      s5 == <<Trunc(s4) + o.day, 16>>               \* tmp2 += day
      s6 == <<Trunc(s5) - 91, 16>>                  \* tmp2 -= 91
      s7 == <<tmp1 * 2, 8>>                         \* tmp1 <<= 1
      s8 == <<Trunc(s6) - Trunc(s7), 16>>           \* tmp2 -= tmp1
      s9 == <<Trunc(s8) + (IF Trunc(s7) # 0 THEN is_leap_year(o.year) ELSE 0), 16>>
  IN <<s1, s2, s3, s4, s5, s6, s7, s8, s9>>

calculate_ydn(o) ==
  [o EXCEPT !.ydn = Trunc(calculate_ydn_steps(o)[9])]

\* The two year-by-year loops run their body until their condition fails.
\* Each is modelled as LoopBound applications of its body, which changes
\* nothing once the condition has failed; the applications are split in
\* halves, and written as functions, so that the evaluation does not nest
\* LoopBound deep.
LoopBound == 256

\* as cdn_walk_back_step, the leap day of the year left instead of the year
\* entered
cdn_walk_back_step_leap_of_left_year(yc) ==
  IF yc[1] > 2000
  THEN <<yc[1] - 1, U16(U16(yc[2] + 365) + is_leap_year(yc[1]))>>
  ELSE yc

\* one pass of the while loop of calculate_cdn on yc = <<y, cdn>> (uint16_t)
cdn_walk_back_step(yc) ==
  IF yc[1] > 2000
  THEN <<yc[1] - 1, U16(U16(yc[2] + 365) + is_leap_year(yc[1] - 1))>>
  ELSE yc

cdn_walk_back[n \in Nat, yc \in Nat \X Nat] ==
  IF n = 0 THEN yc
  ELSE IF n = 1 THEN cdn_walk_back_step(yc)
  ELSE cdn_walk_back[n - n \div 2, cdn_walk_back[n \div 2, yc]]

calculate_cdn(o) ==
  [o EXCEPT !.cdn = cdn_walk_back[LoopBound, <<o.year, U16(o.ydn - 1)>>][2]]

calculate_dow(o) ==
  [o EXCEPT !.dow = U8(U16(o.cdn + 6) % 7)]

calculate_time2000(o) ==
  LET t0 == W32(o.cdn)                              \* t = cdn
      t1 == Mul32(t0, 24)
      t2 == Add32(t1, o.hour)
      t3 == Mul32(t2, 60)
      t4 == Add32(t3, o.minute)
      t5 == Mul32(t4, 60)
  IN [o EXCEPT !.time2000 = Add32(t5, o.second)]

\* as _corrected_year_day_number_steps, the leap day not taken back
corrected_ydn_steps_leap_dropped(o) ==
  LET s1 == <<o.ydn, 16>>
      over == Trunc(s1) > U8(59 + is_leap_year(o.year))
      s2 == <<IF over THEN Trunc(s1) + 2 ELSE Trunc(s1), 16>>
      s3 == <<Trunc(s2), 16>>
      s4 == <<Trunc(s3) + 91, 16>>
  IN <<s1, s2, s3, s4>>

_corrected_year_day_number_steps(o) ==
  LET a == is_leap_year(o.year)
      s1 == <<o.ydn, 16>>                           \* corrected_ydn = ydn
      over == Trunc(s1) > U8(59 + a)
      s2 == <<IF over THEN Trunc(s1) + 2 ELSE Trunc(s1), 16>>
      s3 == <<IF over THEN Trunc(s2) - a ELSE Trunc(s2), 16>>
      s4 == <<Trunc(s3) + 91, 16>>                  \* corrected_ydn += 91
  IN <<s1, s2, s3, s4>>

_corrected_year_day_number(o) ==
  Trunc(_corrected_year_day_number_steps(o)[4])

calculate_month_steps(o) ==
  LET s1 == <<_corrected_year_day_number(o) * 20, 16>>   \* c_ydn *= 20
      s2 == <<Trunc(s1) \div 611, 16>>                    \* c_ydn /= 611
      s3 == <<Trunc(s2), 8>>                              \* a = c_ydn
      s4 == <<Trunc(s3) - 2, 8>>                          \* a -= 2
  IN <<s1, s2, s3, s4>>

calculate_month_by_year_and_ydn(o) ==
  [o EXCEPT !.month = Trunc(calculate_month_steps(o)[4])]

calculate_day_steps(o) ==
  LET s1 == <<o.month + 2, 8>>                            \* m += 2
      s2 == <<611 * Trunc(s1), 16>>                       \* tmp *= m
      s3 == <<Trunc(s2) \div 20, 16>>                     \* tmp /= 20
      s4 == <<_corrected_year_day_number(o) - Trunc(s3), 16>>  \* c_ydn -= tmp
      s5 == <<Trunc(s4), 8>>                              \* day = c_ydn
  IN <<s1, s2, s3, s4, s5>>

calculate_day_by_month_year_and_ydn(o) ==
  [o EXCEPT !.day = Trunc(calculate_day_steps(o)[5])]

\* one pass of the for(;;) loop of fillByCDN on yc = <<y, _cdn>> (uint16_t)
cdn_walk_forward_step(yc) ==
  IF yc[2] >= 365 + is_leap_year(yc[1])
  THEN <<U16(yc[1] + 1), U16(yc[2] - (365 + is_leap_year(yc[1])))>>
  ELSE yc

cdn_walk_forward[n \in Nat, yc \in Nat \X Nat] ==
  IF n = 0 THEN yc
  ELSE IF n = 1 THEN cdn_walk_forward_step(yc)
  ELSE cdn_walk_forward[n - n \div 2, cdn_walk_forward[n \div 2, yc]]

fillByCDN(o, _cdn) ==
  LET w == cdn_walk_forward[LoopBound, <<2000, U16(_cdn)>>]
      o1 == [o EXCEPT !.cdn = U16(_cdn), !.year = w[1], !.ydn = U16(w[2] + 1)]
  IN calculate_time2000(
       calculate_day_by_month_year_and_ydn(
         calculate_month_by_year_and_ydn(
           calculate_dow(o1))))

fillByTime2000(o, _time2000) ==
  LET t0 == _time2000
      t1 == Div32(t0, 60)
      t2 == Div32(t1, 60)
      t3 == Div32(t2, 24)
      o1 == [o EXCEPT !.time2000 = t0, !.second = Mod32(t0, 60),
                      !.minute = Mod32(t1, 60), !.hour = Mod32(t2, 24)]
  IN fillByCDN(o1, t3[2])                           \* uint16_t _cdn

fillByHMS(o, h, m, s) ==
  calculate_time2000([o EXCEPT !.hour = U8(h), !.minute = U8(m), !.second = U8(s)])

fillByYMD(o, y, m, d) ==
  calculate_time2000(
    calculate_dow(
      calculate_cdn(
        calculate_ydn([o EXCEPT !.year = U16(y), !.month = U8(m), !.day = U8(d)]))))

\* isCETSummerTime without the closing fillByTime2000(current_time)
isCETSummerTime_not_restored(o) ==
  LET current_time == o.time2000
      s1 == fillByHMS(fillByYMD(o, o.year, 3, 30), 2, 0, 0)
      s2 == fillByCDN(s1, s1.cdn - s1.dow)
      w1 == fillByHMS(fillByYMD(s2, s2.year, 10, 31), 3, 0, 0)
      w2 == fillByCDN(w1, w1.cdn - w1.dow)
  IN [o |-> w2,
      ret |-> IF ~Less32(current_time, s2.time2000)
                 /\ Less32(current_time, w2.time2000) THEN 1 ELSE 0]

\* isCETSummerTime with current_time <= winter_start as its second test
isCETSummerTime_winter_start_included(o) ==
  LET current_time == o.time2000
      s1 == fillByHMS(fillByYMD(o, o.year, 3, 30), 2, 0, 0)
      s2 == fillByCDN(s1, s1.cdn - s1.dow)
      w1 == fillByHMS(fillByYMD(s2, s2.year, 10, 31), 3, 0, 0)
      w2 == fillByCDN(w1, w1.cdn - w1.dow)
  IN [o |-> fillByTime2000(w2, current_time),
      ret |-> IF ~Less32(current_time, s2.time2000)
                 /\ ~Less32(w2.time2000, current_time) THEN 1 ELSE 0]

\* isCETSummerTime(), called on the global object RTC: the function reads
\* RTC.cdn and RTC.dow, which are this object's fields then.  s1, s2 and
\* w1, w2 are the object after fillByHMS and after fillByCDN of the two
\* blocks; the result is the object after the restore and the value returned.
isCETSummerTime(o) ==
  LET current_time == o.time2000
      s1 == fillByHMS(fillByYMD(o, o.year, 3, 30), 2, 0, 0)
      s2 == fillByCDN(s1, s1.cdn - s1.dow)          \* sunday before
      summer_start == s2.time2000
      w1 == fillByHMS(fillByYMD(s2, s2.year, 10, 31), 3, 0, 0)
      w2 == fillByCDN(w1, w1.cdn - w1.dow)          \* sunday before
      winter_start == w2.time2000
  IN [o |-> fillByTime2000(w2, current_time),
      ret |-> IF ~Less32(current_time, summer_start)
                 /\ Less32(current_time, winter_start) THEN 1 ELSE 0]

(***************************************************************************)
(* Clock registers.  regs is what the chip sends for registers 0x00..0x06: *)
(* seconds, minutes, hours, weekday (1..7), day, month, year, in BCD.      *)
(***************************************************************************)
getTime(o, regs) ==
  LET o1 == [o EXCEPT !.second = bcd2dec(regs[1] % 128),
                      !.minute = bcd2dec(regs[2]),
                      !.hour = bcd2dec(regs[3]),
                      !.dow = U8(bcd2dec(regs[4]) - 1),
                      !.day = bcd2dec(regs[5]),
                      !.month = bcd2dec(regs[6]),
                      !.year = U16(bcd2dec(regs[7]) + 2000)]
  IN calculate_time2000(calculate_dow(calculate_cdn(calculate_ydn(o1))))

\* the bytes setTime sends for registers 0x00..0x06
setTime(o) ==
  <<OrBit(dec2bcd(o.second), 7), dec2bcd(o.minute), dec2bcd(o.hour) % 64,
    dec2bcd(U8(o.dow + 1)), dec2bcd(o.day), dec2bcd(o.month),
    dec2bcd(U8(o.year - 2000))>>

\* reg0 is the seconds register as read; the result is the object and the
\* byte written back
stopClock(o, reg0) == [o EXCEPT !.second = OrBit(U8(reg0), 7)]
startClock(o, reg0) == [o EXCEPT !.second = U8(reg0) % 128]

\* p is the offset of the two characters in the string s (of character codes)
convert2decimal(s, p) ==
  LET v == IF 48 <= s[p + 1] /\ s[p + 1] <= 57 THEN s[p + 1] - 48 ELSE 0
  IN U8(10 * v + s[p + 2] - 48)

\* the switch on date[0] of setDateTime: J F A M S O N D
month_of(date) ==
  CASE date[1] = 74 -> (IF date[2] = 97 THEN 1 ELSE IF date[3] = 110 THEN 6 ELSE 7)
    [] date[1] = 70 -> 2
    [] date[1] = 65 -> (IF date[3] = 114 THEN 4 ELSE 8)
    [] date[1] = 77 -> (IF date[3] = 114 THEN 3 ELSE 5)
    [] date[1] = 83 -> 9
    [] date[1] = 79 -> 10
    [] date[1] = 78 -> 11
    [] date[1] = 68 -> 12

setDateTime(o, date, time) ==
  LET yOff == convert2decimal(date, 9)
      m == month_of(date)
      d == convert2decimal(date, 4)
      hh == convert2decimal(time, 0)
      mm == convert2decimal(time, 3)
      ss == convert2decimal(time, 6)
  IN fillByHMS(fillByYMD(o, U16(yOff + 2000), m, d), hh, mm, ss)

(***************************************************************************)
(* Alarm store.  Every operator takes the NV-RAM r (and the object o where *)
(* it is read) and gives what the call leaves.  tx lists, in program       *)
(* order, whether each NV-RAM transfer of the call is acknowledged.        *)
(***************************************************************************)
\* tx = <<setRAM code, getRAM alarm bits, setRAM alarm bits>>
clearAlarm(r, dayOfWeek, tx) ==
  LET value0 == NoAlarmCode
      r1 == setRAM(r, alarmCodeAddressOffset + dayOfWeek, <<value0>>, tx[1])
      value1 == getRAM(r1, alarmBitsAddress, value0, tx[2])
      mask == U8(Pow2(dayOfWeek))
      value2 == U8(value1 - mask)
  IN setRAM(r1, alarmBitsAddress, <<value2>>, tx[3])

isTimeSet(r, ack) ==
  getRAM(r, timeIsSetAddress, 0, ack) = aspectIsSetToken

\* setAlarm(uint8_t dayOfWeek, uint8_t alarmCode)
\* tx = <<getRAM alarm bits, setRAM alarm bits, setRAM code>>
setAlarmCode(r, dayOfWeek, alarmCode, tx) ==
  LET bits0 == getRAM(r, alarmBitsAddress, 0, tx[1])
      bits1 == OrBit(bits0, dayOfWeek)
      r1 == setRAM(r, alarmBitsAddress, <<bits1>>, tx[2])
  IN setRAM(r1, alarmCodeAddressOffset + dayOfWeek, <<U8(alarmCode)>>, tx[3])

\* setAlarm(uint8_t dayOfWeek, uint8_t alarmHour, uint8_t alarmMinutes)
setAlarm(r, dayOfWeek, alarmHour, alarmMinutes, tx) ==
  IF alarmHour >= 4 \/ alarmHour < 21
  THEN [ram |-> setAlarmCode(r, dayOfWeek,
                             U8((alarmHour - 4) * 12 + alarmMinutes \div 5), tx),
        ret |-> TRUE]
  ELSE [ram |-> r, ret |-> FALSE]

\* tx = <<getRAM alarm bits, getRAM code>>; us is what micros() returns
isAlarmTime(o, r, tx, us) ==
  LET currentAlarmBits == getRAM(r, alarmBitsAddress, 0, tx[1])
      currentDayOfWeek == o.dow
      alarmCode == getRAM(r, alarmCodeAddressOffset + currentDayOfWeek, 0, tx[2])
      alarmHour0 == U8(alarmCode \div 12)
      alarmMinute == U8((alarmCode - alarmHour0 * 12) * 5)
      alarmHour == U8(alarmHour0 + 4)
      trigger == o.alarmTriggeredTime = 0 /\ o.hour >= alarmHour
                 /\ o.minute >= alarmMinute
      t1 == IF trigger THEN ToLong(us) ELSE o.alarmTriggeredTime
      t2 == IF o.hour = 0 /\ o.minute = 0 THEN 0 ELSE t1
  IN IF AndBit(currentAlarmBits, currentDayOfWeek) > 0
     THEN [o |-> [o EXCEPT !.alarmTriggeredTime = t2], ret |-> trigger]
     ELSE [o |-> o, ret |-> FALSE]

\* date, time are __DATE__ and __TIME__; reg0 is the seconds register
\* stopClock reads; startClock reads back what setTime has just written.
\* setRAM is called with sizeof(uint16_t): it sends aspectIsSetToken and the
\* byte that follows it in the object, aspectIsNotSetToken.
setDateTimeRTC(o, r, date, time, reg0, ack) ==
  LET o1 == stopClock(o, reg0)
      o2 == setDateTime(o1, date, time)
      o3 == startClock(o2, setTime(o2)[1])
  IN [o |-> o3,
      ram |-> setRAM(r, timeIsSetAddress,
                     <<aspectIsSetToken, aspectIsNotSetToken>>, ack)]

RECURSIVE clearCodes(_, _, _)
\* the for loop of clearAlarmNvramMemory, from position i on
clearCodes(r, i, tx) ==
  IF i <= alarmCodeAddressOffset + 6
  THEN clearCodes(setRAM(r, i, <<NoAlarmCode>>, tx[i]), i + 1, tx)
  ELSE r

\* tx[1] is the write of the alarm bits, tx[2..8] those of the codes
clearAlarmNvramMemory(r, tx) ==
  clearCodes(setRAM(r, alarmBitsAddress, <<zero>>, tx[1]),
             alarmCodeAddressOffset, tx)

(***************************************************************************)
(* The alarm store as a state machine.  Under Spec the chip acknowledges   *)
(* every NV-RAM transfer; SpecTransport below lets each transfer fail.     *)
(***************************************************************************)
\* the application makes at most MaxCalls calls that write the NV-RAM
MaxCalls == 3
\* weekdays the application sets and clears alarms for
AlarmDays == {3, 4}
\* <<alarmHour, alarmMinutes>> given to setAlarm
AlarmTimes == {<<6, 30>>, <<3, 0>>}
\* alarmCode given to setAlarm(dayOfWeek, alarmCode): 30 is 06:30
AlarmCodes == {30}
\* values micros() returns, as 32-bit unsigned values
MicrosValues == {<<0, 0>>, <<65535, 65532>>}
\* <<year, month, day>> the chip's clock shows: 2000-01-05 is a Wednesday
ClockDates == {<<2000, 1, 5>>, <<2000, 1, 6>>}
\* <<hour, minute>> the chip's clock shows
ClockTimes == {<<0, 0>>, <<6, 25>>, <<6, 35>>, <<7, 0>>}
\* __DATE__ and __TIME__ of the build, as character codes:
\* "Jul 26 2012" and "12:34:56"
BuildStamps ==
  { << <<74, 117, 108, 32, 50, 54, 32, 50, 48, 49, 50>>,
       <<49, 50, 58, 51, 52, 58, 53, 54>> >> }

\* the bytes of registers 0x00..0x06 when the clock shows date d, time t
Registers(d, t, s) ==
  <<dec2bcd(s), dec2bcd(t[2]), dec2bcd(t[1]), dec2bcd(1), dec2bcd(d[3]),
    dec2bcd(d[2]), dec2bcd(d[1] - 2000)>>

Acks(n) == [1..n -> BOOLEAN]
AllAck(n) == [i \in 1..n |-> TRUE]

Done(op, args, rdok, wrok, ret) ==
  [op |-> op, args |-> args, rdok |-> rdok, wrok |-> wrok, ret |-> ret]

\* NV-RAM as clearAlarmNvramMemory leaves it, the clock never set
InitRam ==
  [a \in 0..NvramLast |->
     IF a = alarmBitsAddress THEN zero ELSE aspectIsNotSetToken]

Init ==
  /\ RTC = DS1307new
  /\ ram = InitRam
  /\ last = Done("DS1307new", <<>>, TRUE, TRUE, FALSE)
  /\ sinceMidnight = FALSE
  /\ calls = 0

\* clearAlarm has no return statement: the caller gets either value
ClearAlarmTx(txs) ==
  \E d \in AlarmDays, tx \in txs, ret \in BOOLEAN :
    /\ calls < MaxCalls
    /\ calls' = calls + 1
    /\ ram' = clearAlarm(ram, d, tx)
    /\ last' = Done("clearAlarm", <<d>>, tx[2], tx[1] /\ tx[3], ret)
    /\ UNCHANGED <<RTC, sinceMidnight>>

IsTimeSet ==
  /\ last' = Done("isTimeSet", <<>>, TRUE, TRUE, isTimeSet(ram, TRUE))
  /\ UNCHANGED <<RTC, ram, sinceMidnight, calls>>

SetAlarmTx(txs) ==
  \E d \in AlarmDays, t \in AlarmTimes, tx \in txs :
    LET res == setAlarm(ram, d, t[1], t[2], tx)
    IN /\ calls < MaxCalls
       /\ calls' = calls + 1
       /\ ram' = res.ram
       /\ last' = Done("setAlarm", <<d, t[1], t[2]>>, tx[1], tx[2] /\ tx[3], res.ret)
       /\ UNCHANGED <<RTC, sinceMidnight>>

SetAlarmCodeTx(txs) ==
  \E d \in AlarmDays, c \in AlarmCodes, tx \in txs :
    /\ calls < MaxCalls
    /\ calls' = calls + 1
    /\ ram' = setAlarmCode(ram, d, c, tx)
    /\ last' = Done("setAlarmCode", <<d, c>>, tx[1], tx[2] /\ tx[3], FALSE)
    /\ UNCHANGED <<RTC, sinceMidnight>>

ClearAlarm == ClearAlarmTx({AllAck(3)})
SetAlarm == SetAlarmTx({AllAck(3)})
SetAlarmCode == SetAlarmCodeTx({AllAck(3)})

IsAlarmTime ==
  \E us \in MicrosValues :
    LET res == isAlarmTime(RTC, ram, AllAck(2), us)
    IN /\ RTC' = res.o
       /\ last' = Done("isAlarmTime", <<>>, TRUE, TRUE, res.ret)
       /\ sinceMidnight' =
            IF RTC.hour = 0 /\ RTC.minute = 0 THEN FALSE
            ELSE IF res.ret THEN TRUE ELSE sinceMidnight
       /\ UNCHANGED <<ram, calls>>

\* the seconds register stopClock reads shows second 0
SetDateTimeRTC ==
  \E b \in BuildStamps :
    LET res == setDateTimeRTC(RTC, ram, b[1], b[2], dec2bcd(0), TRUE)
    IN /\ calls < MaxCalls
       /\ calls' = calls + 1
       /\ RTC' = res.o
       /\ ram' = res.ram
       /\ last' = Done("setDateTimeRTC", <<>>, TRUE, TRUE, FALSE)
       /\ UNCHANGED sinceMidnight

ClearAlarmNvramMemory ==
  /\ calls < MaxCalls
  /\ calls' = calls + 1
  /\ ram' = clearAlarmNvramMemory(ram, AllAck(8))
  /\ last' = Done("clearAlarmNvramMemory", <<>>, TRUE, TRUE, FALSE)
  /\ UNCHANGED <<RTC, sinceMidnight>>

GetTime ==
  \E d \in ClockDates, t \in ClockTimes :
    /\ RTC' = getTime(RTC, Registers(d, t, 0))
    /\ last' = Done("getTime", <<>>, TRUE, TRUE, FALSE)
    /\ UNCHANGED <<ram, sinceMidnight, calls>>

Next ==
  \/ ClearAlarm
  \/ IsTimeSet
  \/ SetAlarm
  \/ SetAlarmCode
  \/ IsAlarmTime
  \/ SetDateTimeRTC
  \/ ClearAlarmNvramMemory
  \/ GetTime

Spec == Init /\ [][Next]_vars

(***************************************************************************)
(* Claims about the alarm store, checked under Spec                        *)
(***************************************************************************)
\* the (hour, minute) pairs setAlarm encodes: 04:00 .. 11:55 in 5-minute steps
ValidAlarmHours == 4..11
ValidAlarmMinutes == {5 * k : k \in 0..11}

\* the stored schedule is one that setAlarm(d, h, m) leaves
LeftBySetAlarm(r, d, h, m) == setAlarm(r, d, h, m, AllAck(3)).ram = r

AtOrAfter(o, h, m) == o.hour > h \/ (o.hour = h /\ o.minute >= m)

\* C1: with the schedule setAlarm(d, h, m) leaves and no trigger recorded
\* (alarmTriggeredTime = 0), isAlarmTime on weekday d returns true exactly
\* when the current (hour, minute) is at or after (h, m), hour compared
\* first and then minute.
C1_DueExactlyAtOrAfter ==
  [][ \A h \in ValidAlarmHours, m \in ValidAlarmMinutes :
        ( /\ last'.op = "isAlarmTime"
          /\ RTC.alarmTriggeredTime = 0
          /\ RTC.dow \in 0..6
          /\ LeftBySetAlarm(ram, RTC.dow, h, m) )
        => (last'.ret <=> AtOrAfter(RTC, h, m)) ]_vars

\* C2: once an isAlarmTime call has returned true, every later call returns
\* false until some call observes hour = 0 and minute = 0, whatever micros()
\* returned at the trigger.
C2_FiresOncePerDay ==
  [][ ( /\ last'.op = "isAlarmTime"
        /\ sinceMidnight
        /\ ~(RTC.hour = 0 /\ RTC.minute = 0) )
      => ~last'.ret ]_vars

\* C3: every isAlarmTime call made while hour = 0 and minute = 0 resets the
\* de-bounce state to "never triggered" (alarmTriggeredTime = 0), whatever
\* the weekday and whatever alarms are configured for it.
C3_MidnightRearms ==
  [][ (last'.op = "isAlarmTime" /\ RTC.hour = 0 /\ RTC.minute = 0)
      => RTC'.alarmTriggeredTime = 0 ]_vars

\* isAlarmTime is false on weekday d at every hour and minute
NeverDue(o, r, d) ==
  \A h \in 0..23, m \in 0..59, us \in MicrosValues :
    ~isAlarmTime([o EXCEPT !.dow = d, !.hour = h, !.minute = m], r, AllAck(2), us).ret

\* C4: after clearAlarm(d), from every stored schedule, bit d of activeDays
\* is 0 and codes[d] is 0xFF, isAlarmTime on weekday d is false at every
\* time, and a second clearAlarm(d) leaves the stored record as it is.
C4_ClearAlarmClears ==
  last.op = "clearAlarm" =>
    LET d == last.args[1]
    IN /\ Bit(ram[alarmBitsAddress], d) = 0
       /\ ram[alarmCodeAddressOffset + d] = NoAlarmCode
       /\ NeverDue(RTC, ram, d)
       /\ clearAlarm(ram, d, AllAck(3)) = ram

\* C5: setAlarm(weekday, hour, minute) with hour < 4 returns false and leaves
\* the activeDays byte and the seven code bytes as they were.
C5_EarlyHourRejected ==
  [][ (last'.op = "setAlarm" /\ last'.args[2] < 4)
      => ( /\ ~last'.ret
           /\ \A a \in alarmBitsAddress..NvramLast : ram'[a] = ram[a] ) ]_vars

\* C6: setDateTimeRTC changes only the clock-is-set token at position 0: the
\* activeDays byte and the seven code bytes stay as they were.
C6_TimeSetKeepsSchedule ==
  [][ last'.op = "setDateTimeRTC"
      => \A a \in alarmBitsAddress..NvramLast : ram'[a] = ram[a] ]_vars

(***************************************************************************)
(* Unreliable transport: every NV-RAM transfer of a call may go            *)
(* unacknowledged, independently of the others.                            *)
(***************************************************************************)
ClearAlarmUnreliable == ClearAlarmTx(Acks(3))
SetAlarmUnreliable == SetAlarmTx(Acks(3))
SetAlarmCodeUnreliable == SetAlarmCodeTx(Acks(3))

ClearAlarmNvramMemoryUnreliable ==
  \E tx \in Acks(8) :
    /\ calls < MaxCalls
    /\ calls' = calls + 1
    /\ ram' = clearAlarmNvramMemory(ram, tx)
    /\ last' = Done("clearAlarmNvramMemory", <<>>, TRUE, \A i \in 1..8 : tx[i], FALSE)
    /\ UNCHANGED <<RTC, sinceMidnight>>

IsTimeSetUnreliable ==
  \E ack \in BOOLEAN :
    /\ last' = Done("isTimeSet", <<>>, ack, TRUE, isTimeSet(ram, ack))
    /\ UNCHANGED <<RTC, ram, sinceMidnight, calls>>

NextTransport ==
  \/ ClearAlarmUnreliable
  \/ SetAlarmUnreliable
  \/ SetAlarmCodeUnreliable
  \/ ClearAlarmNvramMemoryUnreliable
  \/ IsTimeSetUnreliable

SpecTransport == Init /\ [][NextTransport]_vars

\* C7: a setAlarm(d, code) or clearAlarm(d) whose read of the activeDays
\* byte is not acknowledged performs no update: the activeDays byte and the
\* code bytes are the same after the call as before, even when the writes
\* that follow are acknowledged.
C7_FailedReadNoUpdate ==
  [][ (last'.op \in {"setAlarmCode", "clearAlarm"} /\ ~last'.rdok)
      => \A a \in alarmBitsAddress..NvramLast : ram'[a] = ram[a] ]_vars

(***************************************************************************)
(* The calendar engine as a state machine: the operations that change a    *)
(* date/time field, in any order, from the object as constructed.          *)
(***************************************************************************)
\* first year of the calendar (2000-01-01 is day 0) and last full year
FirstYear == 2000
LastYear == 2135

\* The calendar the engine is measured against
LeapYears == {y \in FirstYear..(LastYear + 1) : y % 4 = 0} \ {2100}
DaysInMonth(y, m) ==
  IF m = 2 THEN (IF y \in LeapYears THEN 29 ELSE 28)
  ELSE IF m \in {4, 6, 9, 11} THEN 30 ELSE 31
ValidDate(y, m, d) ==
  y \in FirstYear..(LastYear + 1) /\ m \in 1..12 /\ d \in 1..DaysInMonth(y, m)
RECURSIVE DaysBeforeMonth(_, _)
DaysBeforeMonth(y, m) ==
  IF m <= 1 THEN 0 ELSE DaysBeforeMonth(y, m - 1) + DaysInMonth(y, m - 1)
DayOfYear(y, m, d) == DaysBeforeMonth(y, m) + d
\* days from 2000-01-01 to the first day of year y
DaysBeforeYear(y) ==
  365 * (y - FirstYear) + (y - FirstYear + 3) \div 4 - (IF y > 2100 THEN 1 ELSE 0)
\* ((cdn * 24 + hour) * 60 + minute) * 60 + second as <<high, low>> 16-bit
\* halves; the high half is 65536 or more when the value needs over 32 bits
EpochSeconds(c, h, m, sec) ==
  LET x == c * 675                                   \* 86400 = 675 * 128
      lo == (x % 512) * 128 + h * 3600 + m * 60 + sec
  IN <<x \div 512 + lo \div 65536, lo % 65536>>

\* the derived fields of o agree with its civil fields
Consistent(o) ==
  /\ ValidDate(o.year, o.month, o.day)
  /\ o.ydn = DayOfYear(o.year, o.month, o.day)
  /\ o.cdn = DaysBeforeYear(o.year) + o.ydn - 1
  /\ o.dow = (o.cdn + 6) % 7
  /\ o.time2000 = EpochSeconds(o.cdn, o.hour, o.minute, o.second)

\* arguments in range
CalYears == {2000, 2001, 2004, 2099}
CalMonthDays == {<<1, 1>>, <<2, 28>>, <<3, 1>>, <<12, 31>>}
CalTimes == {<<0, 0, 0>>, <<6, 30, 15>>, <<23, 59, 59>>}
CalDayNumbers == {0, 59, 60, 366, 49672}
\* epoch seconds: 2000-01-01 00:00:00, 2000-03-01 12:00:01, 2135-12-31 23:59:59
CalEpochs == {EpochSeconds(0, 0, 0, 0), EpochSeconds(60, 12, 0, 1),
              EpochSeconds(49672, 23, 59, 59)}
\* the seconds register, with the clock-halt bit (bit 7) clear or set
SecondsRegisters == {dec2bcd(0), dec2bcd(59), dec2bcd(59) + 128}

InitCal ==
  /\ RTC = DS1307new
  /\ ram = InitRam
  /\ last = Done("DS1307new", <<>>, TRUE, TRUE, FALSE)
  /\ sinceMidnight = FALSE
  /\ calls = 0

FillByYMD ==
  \E y \in CalYears, md \in CalMonthDays :
    /\ RTC' = fillByYMD(RTC, y, md[1], md[2])
    /\ last' = Done("fillByYMD", <<y, md[1], md[2]>>, TRUE, TRUE, FALSE)
    /\ UNCHANGED <<ram, sinceMidnight, calls>>

FillByHMS ==
  \E t \in CalTimes :
    /\ RTC' = fillByHMS(RTC, t[1], t[2], t[3])
    /\ last' = Done("fillByHMS", t, TRUE, TRUE, FALSE)
    /\ UNCHANGED <<ram, sinceMidnight, calls>>

FillByCDN ==
  \E c \in CalDayNumbers :
    /\ RTC' = fillByCDN(RTC, c)
    /\ last' = Done("fillByCDN", <<c>>, TRUE, TRUE, FALSE)
    /\ UNCHANGED <<ram, sinceMidnight, calls>>

FillByTime2000 ==
  \E t \in CalEpochs :
    /\ RTC' = fillByTime2000(RTC, t)
    /\ last' = Done("fillByTime2000", <<t>>, TRUE, TRUE, FALSE)
    /\ UNCHANGED <<ram, sinceMidnight, calls>>

GetTimeCal ==
  \E y \in CalYears, md \in CalMonthDays, t \in CalTimes :
    /\ RTC' = getTime(RTC, Registers(<<y, md[1], md[2]>>, <<t[1], t[2]>>, t[3]))
    /\ last' = Done("getTime", <<>>, TRUE, TRUE, FALSE)
    /\ UNCHANGED <<ram, sinceMidnight, calls>>

StopClock ==
  \E reg0 \in SecondsRegisters :
    /\ RTC' = stopClock(RTC, reg0)
    /\ last' = Done("stopClock", <<>>, TRUE, TRUE, FALSE)
    /\ UNCHANGED <<ram, sinceMidnight, calls>>

StartClock ==
  \E reg0 \in SecondsRegisters :
    /\ RTC' = startClock(RTC, reg0)
    /\ last' = Done("startClock", <<>>, TRUE, TRUE, FALSE)
    /\ UNCHANGED <<ram, sinceMidnight, calls>>

NextCal ==
  \/ FillByYMD
  \/ FillByHMS
  \/ FillByCDN
  \/ FillByTime2000
  \/ GetTimeCal
  \/ StopClock
  \/ StartClock

SpecCal == InitCal /\ [][NextCal]_vars

\* C8: after every operation that changes a date/time field (fillByYMD,
\* fillByHMS, fillByCDN, fillByTime2000, getTime, stopClock, startClock), in
\* any order from the zero-initialised object and with in-range arguments,
\* ydn is the day number of (month, day) in year, cdn the day count from
\* 2000-01-01, dow = (cdn + 6) mod 7 and
\* time2000 = ((cdn * 24 + hour) * 60 + minute) * 60 + second.
C8_DerivedFieldsAgree ==
  last.op \in {"fillByYMD", "fillByHMS", "fillByCDN", "fillByTime2000",
               "getTime", "stopClock", "startClock"}
  => Consistent(RTC)

(***************************************************************************)
(* Year-day-number round trip: (month, day) -> ydn -> (month, day), for    *)
(* every date of every year, as fillByYMD and fillByCDN call the three     *)
(* private functions.  last.args keeps the date the run started from.      *)
(***************************************************************************)
InitYdn ==
  /\ \E y \in FirstYear..LastYear, m \in 1..12 :
       \E d \in 1..DaysInMonth(y, m) :
         /\ RTC = [DS1307new EXCEPT !.year = y, !.month = m, !.day = d]
         /\ last = Done("date", <<y, m, d>>, TRUE, TRUE, FALSE)
  /\ ram = InitRam
  /\ sinceMidnight = FALSE
  /\ calls = 0

Calculate_ydn ==
  /\ last.op = "date"
  /\ RTC' = calculate_ydn(RTC)
  /\ last' = [last EXCEPT !.op = "calculate_ydn"]
  /\ UNCHANGED <<ram, sinceMidnight, calls>>

Calculate_month_by_year_and_ydn ==
  /\ last.op = "calculate_ydn"
  /\ RTC' = calculate_month_by_year_and_ydn(RTC)
  /\ last' = [last EXCEPT !.op = "calculate_month_by_year_and_ydn"]
  /\ UNCHANGED <<ram, sinceMidnight, calls>>

Calculate_day_by_month_year_and_ydn ==
  /\ last.op = "calculate_month_by_year_and_ydn"
  /\ RTC' = calculate_day_by_month_year_and_ydn(RTC)
  /\ last' = [last EXCEPT !.op = "calculate_day_by_month_year_and_ydn"]
  /\ UNCHANGED <<ram, sinceMidnight, calls>>

NextYdn ==
  \/ Calculate_ydn
  \/ Calculate_month_by_year_and_ydn
  \/ Calculate_day_by_month_year_and_ydn

SpecYdn == InitYdn /\ [][NextYdn]_vars

AllInRange(steps) == \A i \in DOMAIN steps : InRange(steps[i])

\* the object calculate_ydn was called on in this run
YdnInput == [RTC EXCEPT !.month = last.args[2], !.day = last.args[3]]

\* C9: for every year 2000..2135 and every (month, day) of it, 29 February
\* included, calculate_ydn followed by calculate_month_by_year_and_ydn and
\* calculate_day_by_month_year_and_ydn gives back the same (month, day), and
\* no intermediate value leaves the range of the 8-bit or 16-bit unsigned
\* variable that receives it.
C9_YdnRoundTrip ==
  /\ last.op \in {"calculate_ydn", "calculate_month_by_year_and_ydn",
                  "calculate_day_by_month_year_and_ydn"}
     => AllInRange(calculate_ydn_steps(YdnInput))
  /\ last.op \in {"calculate_month_by_year_and_ydn",
                  "calculate_day_by_month_year_and_ydn"}
     => /\ AllInRange(_corrected_year_day_number_steps(RTC))
        /\ AllInRange(calculate_month_steps(RTC))
        /\ RTC.month = last.args[2]
  /\ last.op = "calculate_day_by_month_year_and_ydn"
     => /\ AllInRange(calculate_day_steps(RTC))
        /\ RTC.month = last.args[2]
        /\ RTC.day = last.args[3]

\* the round trip has run for 29 February of a leap year
C9_Witness ==
  /\ last.op = "calculate_day_by_month_year_and_ydn"
  /\ last.args = <<2096, 2, 29>>
  /\ RTC.ydn = 60

(***************************************************************************)
(* Epoch-seconds round trip: fillByTime2000(t), then fillByYMD and         *)
(* fillByHMS with the fields it produced.  last.args keeps t.              *)
(***************************************************************************)
\* days of each year the runs start from (0 is 1 January): the days around
\* every turn of a month, in common and in leap years, and the last days
EpochDayOffsets ==
  {0, 1, 30, 31, 32, 58, 59, 60, 61, 89, 90, 91, 119, 120, 121, 150, 151, 152,
   180, 181, 182, 211, 212, 213, 242, 243, 244, 272, 273, 274, 303, 304, 305,
   333, 334, 335, 363, 364, 365}
\* seconds of the day the runs start from
EpochDaySeconds == {<<0, 0, 0>>, <<11, 59, 59>>, <<12, 0, 0>>, <<23, 59, 59>>}
\* the epoch seconds of those instants that fit 32 bits
EpochDays ==
  UNION { { DaysBeforeYear(y) + k :
              k \in {j \in EpochDayOffsets :
                       j < DaysBeforeYear(y + 1) - DaysBeforeYear(y)} } :
          y \in FirstYear..LastYear }
EpochInputs ==
  { t \in { EpochSeconds(c, hms[1], hms[2], hms[3]) :
              c \in EpochDays, hms \in EpochDaySeconds } :
      t[1] < 65536 }

InitEpoch ==
  /\ RTC = DS1307new
  /\ \E t \in EpochInputs : last = Done("epoch", <<t>>, TRUE, TRUE, FALSE)
  /\ ram = InitRam
  /\ sinceMidnight = FALSE
  /\ calls = 0

FillByTime2000Epoch ==
  /\ last.op = "epoch"
  /\ RTC' = fillByTime2000(RTC, last.args[1])
  /\ last' = [last EXCEPT !.op = "fillByTime2000"]
  /\ UNCHANGED <<ram, sinceMidnight, calls>>

FillByYMDEpoch ==
  /\ last.op = "fillByTime2000"
  /\ RTC' = fillByYMD(RTC, RTC.year, RTC.month, RTC.day)
  /\ last' = [last EXCEPT !.op = "fillByYMD"]
  /\ UNCHANGED <<ram, sinceMidnight, calls>>

FillByHMSEpoch ==
  /\ last.op = "fillByYMD"
  /\ RTC' = fillByHMS(RTC, RTC.hour, RTC.minute, RTC.second)
  /\ last' = [last EXCEPT !.op = "fillByHMS"]
  /\ UNCHANGED <<ram, sinceMidnight, calls>>

NextEpoch ==
  \/ FillByTime2000Epoch
  \/ FillByYMDEpoch
  \/ FillByHMSEpoch

SpecEpoch == InitEpoch /\ [][NextEpoch]_vars

\* t div 86400, for t below 2^32
DaysOf(t) == Div32(Div32(Div32(t, 60), 60), 24)

\* C10: for every 32-bit epoch-seconds value t in years 2000..2135,
\* fillByTime2000(t) followed by fillByYMD and fillByHMS with the fields it
\* produced leaves time2000 = t and cdn = t div 86400.
C10_EpochRoundTrip ==
  last.op = "fillByHMS" =>
    /\ RTC.time2000 = last.args[1]
    /\ <<0, RTC.cdn>> = DaysOf(last.args[1])

\* the round trip has run for 2135-12-31 23:59:59, the last second in range
C10_Witness ==
  /\ last.op = "fillByHMS"
  /\ last.args[1] = EpochSeconds(DaysBeforeYear(LastYear + 1) - 1, 23, 59, 59)
  /\ RTC.month = 12 /\ RTC.day = 31 /\ RTC.hour = 23

(***************************************************************************)
(* The summer-time query on a DateTime that was filled from epoch seconds, *)
(* or from a date and then a time.  last.args keeps                        *)
(* <<year, month, day, hour, minute, second>> of the run.                  *)
(***************************************************************************)
\* <<month, day, hour, minute, second>> the runs start from, in every year:
\* the first and the last second of the year, 01:59:59 and 02:00:00 on every
\* day a last Sunday of March can fall on, 02:59:59 and 03:00:00 on every
\* day a last Sunday of October can fall on
DstInstants ==
  {<<1, 1, 0, 0, 0>>, <<12, 31, 23, 59, 59>>}
    \cup {<<3, d, 1, 59, 59>> : d \in 24..31}
    \cup {<<3, d, 2, 0, 0>> : d \in 24..31}
    \cup {<<10, d, 2, 59, 59>> : d \in 25..31}
    \cup {<<10, d, 3, 0, 0>> : d \in 25..31}
\* days from 2000-01-01 to (y, m, d)
DayNumber(y, m, d) == DaysBeforeYear(y) + DayOfYear(y, m, d) - 1

InitDst ==
  /\ RTC = DS1307new
  /\ \E y \in FirstYear..LastYear, i \in DstInstants :
       last = Done("date", <<y>> \o i, TRUE, TRUE, FALSE)
  /\ ram = InitRam
  /\ sinceMidnight = FALSE
  /\ calls = 0

FillByTime2000Dst ==
  LET a == last.args
      t == EpochSeconds(DayNumber(a[1], a[2], a[3]), a[4], a[5], a[6])
  IN /\ last.op = "date"
     /\ t[1] < 65536
     /\ RTC' = fillByTime2000(RTC, t)
     /\ last' = [last EXCEPT !.op = "fillByTime2000"]
     /\ UNCHANGED <<ram, sinceMidnight, calls>>

FillByYMDDst ==
  /\ last.op = "date"
  /\ RTC' = fillByYMD(RTC, last.args[1], last.args[2], last.args[3])
  /\ last' = [last EXCEPT !.op = "fillByYMD"]
  /\ UNCHANGED <<ram, sinceMidnight, calls>>

FillByHMSDst ==
  /\ last.op = "fillByYMD"
  /\ RTC' = fillByHMS(RTC, last.args[4], last.args[5], last.args[6])
  /\ last' = [last EXCEPT !.op = "fillByHMS"]
  /\ UNCHANGED <<ram, sinceMidnight, calls>>

\* last.ret is TRUE when the call returned 1, FALSE when it returned 0
IsCETSummerTime ==
  LET res == isCETSummerTime(RTC)
  IN /\ last.op \in {"fillByTime2000", "fillByHMS"}
     /\ RTC' = res.o
     /\ last' = [last EXCEPT !.op = "isCETSummerTime", !.ret = (res.ret = 1)]
     /\ UNCHANGED <<ram, sinceMidnight, calls>>

NextDst ==
  \/ FillByTime2000Dst
  \/ FillByYMDDst
  \/ FillByHMSDst
  \/ IsCETSummerTime

SpecDst == InitDst /\ [][NextDst]_vars

\* the object is one the query is specified for
ConsistentInRange(o) == Consistent(o) /\ o.year \in FirstYear..LastYear

DateTimeFields ==
  {"year", "month", "day", "hour", "minute", "second", "dow", "ydn", "cdn",
   "time2000"}

\* C11: on a DateTime whose fields are mutually consistent, in years
\* 2000..2135, a call to isCETSummerTime leaves year, month, day, hour,
\* minute, second, dow, ydn, cdn and time2000 equal to their values before
\* the call.
C11_QueryKeepsDateTime ==
  [][ (last'.op = "isCETSummerTime" /\ ConsistentInRange(RTC))
      => \A f \in DateTimeFields : RTC'[f] = RTC[f] ]_vars

\* the query has run on 2135-12-31 23:59:59, the last second in range
C11_Witness ==
  /\ last.op = "isCETSummerTime"
  /\ last.args = <<LastYear, 12, 31, 23, 59, 59>>
  /\ RTC.year = LastYear /\ RTC.month = 12 /\ RTC.day = 31
  /\ RTC.hour = 23 /\ RTC.minute = 59 /\ RTC.second = 59

\* the latest Sunday on or before day number c (2000-01-01 was a Saturday)
SundayOnOrBefore(c) == c - ((c + 6) % 7)
\* 02:00:00 on the latest Sunday on or before 30 March of year y, and
\* 03:00:00 on the latest Sunday on or before 31 October, as epoch seconds
SummerStart(y) == EpochSeconds(SundayOnOrBefore(DayNumber(y, 3, 30)), 2, 0, 0)
WinterStart(y) == EpochSeconds(SundayOnOrBefore(DayNumber(y, 10, 31)), 3, 0, 0)
\* from <= t and t < to
InWindow(t, start, end) == ~Less32(t, start) /\ Less32(t, end)

\* C12: on a consistent DateTime in years 2000..2135, isCETSummerTime returns
\* 1 exactly when time2000 lies in [summerStart, winterStart), summerStart
\* being 02:00:00 on the latest Sunday on or before 30 March of the current
\* year and winterStart 03:00:00 on the latest Sunday on or before 31
\* October; so it returns 0 one second before summerStart and at winterStart.
C12_SummerTimeWindow ==
  [][ (last'.op = "isCETSummerTime" /\ ConsistentInRange(RTC))
      => (last'.ret <=> InWindow(RTC.time2000, SummerStart(RTC.year),
                                 WinterStart(RTC.year))) ]_vars

\* the query has run at winterStart itself, 2002-10-27 03:00:00, and
\* returned 0
C12_Witness ==
  /\ last.op = "isCETSummerTime"
  /\ last.args = <<2002, 10, 27, 3, 0, 0>>
  /\ RTC.time2000 = WinterStart(2002)
  /\ ~last.ret

\* 02:00:00 on the last Sunday of March of year y, as epoch seconds
LastSundayOfMarch0200(y) ==
  EpochSeconds(SundayOnOrBefore(DayNumber(y, 3, 31)), 2, 0, 0)
\* 03:00:00 on the last Sunday of October of year y, as epoch seconds
LastSundayOfOctober0300(y) ==
  EpochSeconds(SundayOnOrBefore(DayNumber(y, 10, 31)), 3, 0, 0)

\* C14: on a consistent DateTime in years 2000..2135, isCETSummerTime returns
\* 1 exactly when the time lies between 02:00 on the last Sunday of March
\* (which can be 31 March) and 03:00 on the last Sunday of October of the
\* current year, start included and end excluded.
C14_CentralEuropeanSummerTime ==
  [][ (last'.op = "isCETSummerTime" /\ ConsistentInRange(RTC))
      => (last'.ret <=> InWindow(RTC.time2000, LastSundayOfMarch0200(RTC.year),
                                 LastSundayOfOctober0300(RTC.year))) ]_vars

(***************************************************************************)
(* The alarm store, one weekday against the others                         *)
(***************************************************************************)
Weekdays == 0..6

\* C13: setAlarm(d, code) and clearAlarm(d), from every stored schedule,
\* change nothing about any other weekday: for every e other than d, bit e
\* of activeDays and codes[e] are the same after the call as before it (so
\* that, after clearAlarmNvramMemory, bit e is set exactly when the last
\* call that named weekday e was a setAlarm, and codes[e] holds its code).
C13_OtherWeekdaysKept ==
  [][ last'.op \in {"setAlarmCode", "clearAlarm"}
      => \A e \in Weekdays \ {last'.args[1]} :
           /\ Bit(ram'[alarmBitsAddress], e) = Bit(ram[alarmBitsAddress], e)
           /\ ram'[alarmCodeAddressOffset + e] = ram[alarmCodeAddressOffset + e]
    ]_vars

====
